---- MODULE Spec2Model ----
(***************************************************************************)
(* Face-Photo-Search: the background photo processor (app/tasks.py), the   *)
(* store it writes (app/database.py), the thresholds (app/config.py) and   *)
(* the greedy clusterer (app/face_engine.py).                              *)
(*                                                                         *)
(* Numbers.  Embeddings are numpy float vectors in the source.  Here a     *)
(* vector is an exact rational vector [x, y, d] standing for (x/d, y/d),   *)
(* d > 0, and a scalar is an exact rational [n, d], d > 0.  Every          *)
(* operation below is the source's arithmetic carried out exactly.         *)
(***************************************************************************)
EXTENDS Integers, Sequences, FiniteSets, TLC

None == "None"

\* A NULL group_id.  Group ids are the positive numbers.
NULL == 0

(***************************************************************************)
(* Exact arithmetic                                                        *)
(***************************************************************************)
\* F applied to the value of x: x is evaluated once, where a LET definition or
\* an operator argument is evaluated again at each of its uses.
Strict(x, F(_)) == CHOOSE r \in {F(v) : v \in {x}} : TRUE

Abs(n) == IF n < 0 THEN -n ELSE n

RECURSIVE GCD(_, _)
GCD(a, b) == IF b = 0 THEN a ELSE GCD(b, a % b)

\* A vector in lowest terms (one representation per value).
Reduce(v) ==
    LET g == GCD(GCD(Abs(v.x), Abs(v.y)), v.d)
    IN  [x |-> v.x \div g, y |-> v.y \div g, d |-> v.d \div g]

\* The integer square root of a perfect square (np.linalg.norm on the inputs
\* of this model, whose squared norms are perfect squares).
ISqrt(n) == CHOOSE r \in 0..n : r * r = n

\* np.linalg.norm(v) as a rational.
Norm(v) == [n |-> ISqrt(v.x * v.x + v.y * v.y), d |-> v.d]

\* emb / norm: (x/d, y/d) / (r/d) = (x/r, y/r).
DivNorm(v) == Reduce([x |-> v.x, y |-> v.y, d |-> Norm(v).n])

\* np.dot(a, b)
Dot(a, b) == [n |-> a.x * b.x + a.y * b.y, d |-> a.d * b.d]

\* a - b
Sub(a, b) == [x |-> a.x * b.d - b.x * a.d, y |-> a.y * b.d - b.y * a.d, d |-> a.d * b.d]

\* The square of np.linalg.norm(v), exactly.
NormSq(v) == [n |-> v.x * v.x + v.y * v.y, d |-> v.d * v.d]

\* r >= t on rationals
Geq(r, t) == r.n * t.d >= t.n * r.d

\* sqrt(rsq) <= t on rationals: t is not negative and rsq <= t*t.
SqrtLeq(rsq, t) == t.n >= 0 /\ rsq.n * t.d * t.d <= t.n * t.n * rsq.d

\* A centroid that never moves: it stays the embedding of the first member.
RunningMeanFixed(centroid, count, emb) == centroid

\* (centroid * count + emb) / (count + 1)
RunningMean(centroid, count, emb) ==
    Reduce([x |-> centroid.x * count * emb.d + emb.x * centroid.d,
            y |-> centroid.y * count * emb.d + emb.y * centroid.d,
            d |-> centroid.d * emb.d * (count + 1)])

(***************************************************************************)
(* The clusterer (FaceEngine.cluster and its two static methods).          *)
(* A cluster is (gid, centroid, count); the running state of one call of   *)
(* _cluster_cosine / _cluster_euclidean is (clusters, results) plus the    *)
(* number of group ids minted so far.                                      *)
(***************************************************************************)
\* A label source that starts again at each call: the token after the n-th
\* is the first one once two have been minted.
new_group_id_restarting(minted) == (minted % 2) + 1

\* uuid.uuid4().hex: a token never returned before; the n-th token minted.
new_group_id(minted) == minted + 1

\* if emb.ndim == 1: norm = np.linalg.norm(emb); if norm > 0: emb = emb / norm
Normalize(emb) == IF Norm(emb).n > 0 THEN DivNorm(emb) ELSE emb

\* A strict comparison in place of >=.
CosineMatchStrict(emb, centroid, threshold) ==
    Dot(emb, centroid).n * threshold.d > threshold.n * Dot(emb, centroid).d

\* sim = float(np.dot(emb, centroid)); sim >= threshold
CosineMatch(emb, centroid, threshold) == Geq(Dot(emb, centroid), threshold)

\* dist = float(np.linalg.norm(emb - centroid)); dist <= threshold
EuclideanMatch(emb, centroid, threshold) ==
    SqrtLeq(NormSq(Sub(emb, centroid)), threshold)

\* Best fit in place of first fit: the passing cluster of greatest similarity.
ScanCosineBestFit(clusters, emb, threshold, idx) ==
    LET passing == {i \in idx..Len(clusters) :
                       CosineMatch(emb, clusters[i].centroid, threshold)}
    IN  IF passing = {} THEN 0
        ELSE CHOOSE i \in passing : \A j \in passing :
                 /\ Geq(Dot(emb, clusters[i].centroid), Dot(emb, clusters[j].centroid))
                 /\ (Geq(Dot(emb, clusters[j].centroid), Dot(emb, clusters[i].centroid))
                        => i <= j)

\* for idx, (gid, centroid, count) in enumerate(clusters): ... break
\* The index of the cluster the loop breaks at, 0 when it runs to its end.
RECURSIVE ScanCosine(_, _, _, _)
ScanCosine(clusters, emb, threshold, idx) ==
    IF idx > Len(clusters) THEN 0
    ELSE IF CosineMatch(emb, clusters[idx].centroid, threshold) THEN idx
    ELSE ScanCosine(clusters, emb, threshold, idx + 1)

RECURSIVE ScanEuclidean(_, _, _, _)
ScanEuclidean(clusters, emb, threshold, idx) ==
    IF idx > Len(clusters) THEN 0
    ELSE IF EuclideanMatch(emb, clusters[idx].centroid, threshold) THEN idx
    ELSE ScanEuclidean(clusters, emb, threshold, idx + 1)

\* The update takes the centroid for a single embedding: the count is not used
\* as its weight.
AbsorbUnweighted(st, idx, face_id, emb) ==
    [st EXCEPT
       !.clusters[idx] = [gid      |-> @.gid,
                          centroid |-> RunningMean(@.centroid, 1, emb),
                          count    |-> @.count + 1],
       !.results = Append(@, <<face_id, st.clusters[idx].gid>>)]

\* clusters[idx] = (gid, new_centroid, count + 1); results.append((face_id, gid))
Absorb(st, idx, face_id, emb) ==
    [st EXCEPT
       !.clusters[idx] = [gid      |-> @.gid,
                          centroid |-> RunningMean(@.centroid, @.count, emb),
                          count    |-> @.count + 1],
       !.results = Append(@, <<face_id, st.clusters[idx].gid>>)]

\* gid = _new_group_id(); clusters.append((gid, emb, 1)); results.append((face_id, gid))
OpenCluster(st, face_id, emb) ==
    LET gid == new_group_id(st.minted)
    IN  [clusters |-> Append(st.clusters, [gid |-> gid, centroid |-> emb, count |-> 1]),
         results  |-> Append(st.results, <<face_id, gid>>),
         minted   |-> gid]

\* One iteration of the loop over items in _cluster_cosine.
CosineStep(st, item, threshold) ==
    Strict(Normalize(item.emb), LAMBDA emb :
        Strict(ScanCosine(st.clusters, emb, threshold, 1), LAMBDA idx :
            IF idx # 0 THEN Absorb(st, idx, item.id, emb)
            ELSE OpenCluster(st, item.id, emb)))

\* One iteration of the loop over items in _cluster_euclidean.
EuclideanStep(st, item, threshold) ==
    Strict(ScanEuclidean(st.clusters, item.emb, threshold, 1), LAMBDA idx :
        IF idx # 0 THEN Absorb(st, idx, item.id, item.emb)
        ELSE OpenCluster(st, item.id, item.emb))

\* clusters = []; results = []
FreshRun(minted) == [clusters |-> <<>>, results |-> <<>>, minted |-> minted]

RECURSIVE CosineLoop(_, _, _, _)
CosineLoop(st, items, k, threshold) ==
    IF k > Len(items) THEN st
    ELSE Strict(CosineStep(st, items[k], threshold),
                LAMBDA next : CosineLoop(next, items, k + 1, threshold))

RECURSIVE EuclideanLoop(_, _, _, _)
EuclideanLoop(st, items, k, threshold) ==
    IF k > Len(items) THEN st
    ELSE Strict(EuclideanStep(st, items[k], threshold),
                LAMBDA next : EuclideanLoop(next, items, k + 1, threshold))

cluster_cosine(items, threshold, minted) ==
    CosineLoop(FreshRun(minted), items, 1, threshold)

cluster_euclidean(items, threshold, minted) ==
    EuclideanLoop(FreshRun(minted), items, 1, threshold)

\* by_model.setdefault(model, []).append((fid, emb)): a dict keeps its keys in
\* the order of first insertion; the sequence of (model, items) in that order.
RECURSIVE ByModelFrom(_, _, _)
ByModelFrom(faces, k, acc) ==
    IF k > Len(faces) THEN acc
    ELSE LET f == faces[k]
             at == {j \in 1..Len(acc) : acc[j].model = f.model}
         IN  IF at = {}
             THEN Strict(Append(acc, [model |-> f.model, items |-> <<f>>]),
                         LAMBDA next : ByModelFrom(faces, k + 1, next))
             ELSE Strict([acc EXCEPT ![CHOOSE j \in at : TRUE].items = Append(@, f)],
                         LAMBDA next : ByModelFrom(faces, k + 1, next))

\* No partition: every face filed under the model type of the first one.
by_model_unpartitioned(faces) ==
    IF faces = <<>> THEN <<>> ELSE << [model |-> faces[1].model, items |-> faces] >>

by_model(faces) == ByModelFrom(faces, 1, <<>>)

\* if model == "face_recognition": _cluster_euclidean(items, facerec_threshold)
\* else: _cluster_cosine(items, insightface_threshold)
ClusterOne(group, thresholds, minted) ==
    IF group.model = "face_recognition"
    THEN cluster_euclidean(group.items, thresholds.facerec_threshold, minted)
    ELSE cluster_cosine(group.items, thresholds.insightface_threshold, minted)

RECURSIVE ClusterGroups(_, _, _, _)
ClusterGroups(groups, m, thresholds, acc) ==
    IF m > Len(groups) THEN acc
    ELSE Strict(ClusterOne(groups[m], thresholds, acc.minted), LAMBDA r :
             Strict([assignments |-> acc.assignments \o r.results, minted |-> r.minted],
                    LAMBDA next : ClusterGroups(groups, m + 1, thresholds, next)))

\* FaceEngine.cluster: the thresholds are those get_thresholds() returns when
\* the call reaches it.
cluster(faces, thresholds, minted) ==
    IF faces = <<>> THEN [assignments |-> <<>>, minted |-> minted]
    ELSE Strict(by_model(faces), LAMBDA groups :
             ClusterGroups(groups, 1, thresholds,
                 [assignments |-> <<>>, minted |-> minted]))

(***************************************************************************)
(* Bounds of the model and the inputs drawn from them                      *)
(***************************************************************************)
\* Calls of enqueue in one behaviour.
MaxEnqueue == 2
\* Jobs in one submitted batch.
MaxJobs == 2
\* Faces in one input list of the clusterer specification.
MaxFaces == 3

PhotoIds == {"p1", "p2"}

Vec(x, y, d) == [x |-> x, y |-> y, d |-> d]
Rat(n, d) == [n |-> n, d |-> d]

\* Embeddings handed to the clusterer, per model type.  (3, 4) is not of unit
\* length; cosine clustering normalises it to (3/5, 4/5).
Embeddings(model) ==
    IF model = "face_recognition"
    THEN {Vec(0, 0, 1), Vec(1, 0, 2), Vec(2, 0, 5)}
    ELSE {Vec(1, 0, 1), Vec(0, 1, 1), Vec(3, 4, 1)}

ModelTypes == {"insightface", "face_recognition"}

\* Values of the two thresholds: 0.6 is the default of both.
InsightThresholds == {Rat(3, 5), Rat(4, 5)}
FacerecThresholds == {Rat(3, 5), Rat(2, 5)}

Settings(i, f) == [insightface_threshold |-> i, facerec_threshold |-> f]

\* _DEFAULT_INSIGHT, _DEFAULT_FACEREC
DefaultSettings == Settings(Rat(3, 5), Rat(3, 5))

SeqsUpTo(S, n) == UNION {[1..k -> S] : k \in 0..n}

(***************************************************************************)
(* State                                                                   *)
(***************************************************************************)
VARIABLES
    engine,    \* FaceEngine: model_type, available (_engine is not None), init_error
    settings,  \* config._settings
    db,        \* Database: photos (photo_id -> no_face), faces (rows in id order)
    queue,     \* PhotoProcessor.queue
    status,    \* PhotoProcessor.status (a TaskStatus)
    worker,    \* the worker thread: where it is, and its local variables
    minted,    \* group ids minted so far
    hist,      \* history of the run (read by the properties only)
    cl,        \* one call of FaceEngine.cluster, step by step
    retired    \* the processors clear_cache replaced: each one's worker thread
               \* and queue

vars == <<engine, settings, db, queue, status, worker, minted, hist, cl, retired>>

\* @dataclass TaskStatus with its defaults
TaskStatus(state, total, processed, error) ==
    [state |-> state, total |-> total, processed |-> processed, current |-> "",
     faces_found |-> 0, photos_no_face |-> 0, error |-> error]

\* FaceEngine._load: insightface, else face_recognition, else neither (the help
\* text is recorded as _init_error).
EngineLoads ==
    { [model_type |-> "insightface", available |-> TRUE, init_error |-> None],
      [model_type |-> "face_recognition", available |-> TRUE, init_error |-> None],
      [model_type |-> None, available |-> FALSE,
       init_error |-> "No face engine available. Please install one of them"] }

\* FaceEngine.error_message
error_message == engine.init_error

\* What detect_and_embed may return for an image: no face, or two faces
\* (the embeddings of the engine's model type).
DetectResults == { <<>>, <<Vec(1, 0, 1), Vec(0, 1, 1)>> }

\* Three photos whose content is known: A shows two similar faces, B one face
\* unlike them, C no face.
ExampleDetection ==
    [p \in {"A", "B", "C"} |->
        IF p = "A" THEN <<Vec(1, 0, 1), Vec(24, 7, 25)>>
        ELSE IF p = "B" THEN <<Vec(0, 1, 1)>>
        ELSE <<>>]

\* What detect_and_embed may return for the image of a photo.
Detectable(photo_id) ==
    IF photo_id \in DOMAIN ExampleDetection THEN {ExampleDetection[photo_id]}
    ELSE DetectResults

\* PhotoJob(photo_id, file_path, orig_name)
PhotoJob(p) == [photo_id |-> p, orig_name |-> p]

Batches == SeqsUpTo({PhotoJob(p) : p \in PhotoIds}, MaxJobs)

EmptyDb == [photos |-> <<>>, faces |-> <<>>]

IdleWorker ==
    [pc |-> "get", tag |-> 0, jobs |-> <<>>, i |-> 0, faces |-> <<>>,
     parsed |-> <<>>, assignments |-> <<>>, k |-> 0, found |-> <<>>]

\* A store left by an earlier run of the program (the database file outlives
\* the process): one photo with one face, labelled by that run's clustering.
SeededDb ==
    [photos |-> [p \in {"p1"} |-> FALSE],
     faces  |-> << [id |-> 1, photo_id |-> "p1", embedding |-> Vec(1, 0, 1),
                    model_type |-> "insightface", group_id |-> 1] >>]

\* The group ids a store holds were minted before: the greatest of them.
MintedIn(d) ==
    LET ids == {d.faces[j].group_id : j \in 1..Len(d.faces)} \cup {NULL}
    IN  CHOOSE n \in ids : \A m \in ids : m <= n

\* The history: the calls of enqueue, the batches submitted (by tag) and the
\* producer that submitted each, the tags
\* in the order the worker took them, the jobs in the order it attempted them,
\* how each batch ended (where the worker was, its locals, the number of face
\* rows when the batch was taken and when it ended, the batches then waiting),
\* the batches that reached _cluster_all, the store as it was when the
\* current batch was taken and when its current job began, and the number of
\* batches left waiting when the current batch was taken.
NoHistory ==
    [calls |-> 0, submitted |-> 0, batches |-> <<>>, by |-> <<>>, started |-> <<>>,
     attempted |-> <<>>, outcome |-> <<>>, reclustered |-> {},
     atStart |-> EmptyDb, before |-> EmptyDb, behind |-> 0]

IdleCluster ==
    [pc |-> "idle", faces |-> <<>>, thresholds |-> DefaultSettings, groups |-> <<>>,
     m |-> 0, k |-> 0, run |-> FreshRun(0), assignments |-> <<>>,
     pass |-> 1, start |-> 0, first |-> [thresholds |-> DefaultSettings, assignments |-> <<>>],
     last |-> [model |-> None, idx |-> 0, emb |-> Vec(0, 0, 1), before |-> <<>>,
               live |-> DefaultSettings]]

(***************************************************************************)
(* Database                                                                *)
(***************************************************************************)
\* INSERT OR REPLACE INTO photos: one row per photo_id.  The connection never
\* turns foreign keys on (no PRAGMA foreign_keys), so replacing a photo row
\* leaves the face rows of that photo in place.
add_photo(d, photo_id, no_face) ==
    [d EXCEPT !.photos =
        [p \in (DOMAIN d.photos) \cup {photo_id} |->
            IF p = photo_id THEN no_face ELSE d.photos[p]]]

\* Only the first face of the photo is stored.
add_faces_first_only(d, photo_id, face_rows) ==
    [d EXCEPT !.faces = Append(@,
        [id |-> Len(d.faces) + 1, photo_id |-> photo_id,
         embedding |-> face_rows[1].embedding,
         model_type |-> face_rows[1].model_type, group_id |-> NULL])]

\* INSERT INTO faces, one row per face, ids from AUTOINCREMENT, group_id NULL.
add_faces(d, photo_id, face_rows) ==
    [d EXCEPT !.faces = @ \o
        [j \in 1..Len(face_rows) |->
            [id |-> Len(d.faces) + j, photo_id |-> photo_id,
             embedding |-> face_rows[j].embedding,
             model_type |-> face_rows[j].model_type, group_id |-> NULL]]]

\* Only the faces that have no label yet (incremental clustering).
list_faces_unlabelled(d) == SelectSeq(d.faces, LAMBDA f : f.group_id = NULL)

\* SELECT id, photo_id, embedding, bbox, model_type FROM faces
list_faces(d) == d.faces

\* UPDATE faces SET group_id = ? WHERE id = ?
update_group(d, face_id, group_id) ==
    [d EXCEPT !.faces =
        [j \in 1..Len(d.faces) |->
            IF d.faces[j].id = face_id
            THEN [d.faces[j] EXCEPT !.group_id = group_id] ELSE d.faces[j]]]

\* Nothing cleared.
clear_groups_skipped(d) == d

\* UPDATE faces SET group_id = NULL
clear_groups(d) ==
    [d EXCEPT !.faces = [j \in 1..Len(d.faces) |-> [d.faces[j] EXCEPT !.group_id = NULL]]]

\* SELECT COUNT(*), SUM(no_face) FROM photos
count_stats(d) ==
    <<Cardinality(DOMAIN d.photos),
      Cardinality({p \in DOMAIN d.photos : d.photos[p]})>>

\* SELECT COUNT(*) FROM faces
faces_count(d) == Len(d.faces)

(***************************************************************************)
(* PhotoProcessor                                                          *)
(***************************************************************************)
\* x or y, for an Optional[str] x
Or(x, y) == IF x = None \/ x = "" THEN y ELSE x

\* A put that is not safe under concurrency: it overwrites what is waiting.
queue_put_overwriting(q, item) == <<item>>

\* queue.SimpleQueue.put / .get: first in, first out.
queue_put(q, item) == Append(q, item)

\* Last in, first out (a stack in place of the queue).
queue_get_lifo(q) == [item |-> q[Len(q)], rest |-> SubSeq(q, 1, Len(q) - 1)]

queue_get(q) == [item |-> Head(q), rest |-> Tail(q)]

\* The batch the worker holds has ended: recorded in the history.
Ended(kind) ==
    [hist EXCEPT !.outcome =
        [t \in (DOMAIN hist.outcome) \cup {worker.tag} |->
            IF t = worker.tag
            THEN [kind |-> kind, pc |-> worker.pc, i |-> worker.i, k |-> worker.k,
                  assignments |-> worker.assignments,
                  faces0 |-> Len(hist.atStart.faces), faces1 |-> Len(db.faces),
                  waiting |-> Len(queue)]
            ELSE hist.outcome[t]]]

\* The threads that call enqueue (request handlers).
Producers == {"producer1", "producer2"}

\* enqueue also stops the batch in flight.
EnqueueInterrupting(producer, jobs) ==
    /\ hist.calls < MaxEnqueue
    /\ IF jobs = <<>>
       THEN /\ queue' = queue
            /\ hist' = [hist EXCEPT !.calls = @ + 1]
       ELSE /\ queue' = queue_put(queue, [tag |-> hist.submitted + 1, jobs |-> jobs])
            /\ hist' = [hist EXCEPT !.calls = @ + 1, !.submitted = @ + 1,
                                    !.batches = Append(@, jobs),
                                    !.by = Append(@, producer)]
    /\ worker' = IdleWorker
    /\ UNCHANGED <<retired, engine, settings, db, status, minted, cl>>

\* PhotoProcessor.enqueue(jobs), called by a producer.  A queued batch carries
\* the number of its submission as a tag, which only the history reads.
EnqueueBy(producer, jobs) ==
    /\ hist.calls < MaxEnqueue
    /\ IF jobs = <<>>
       THEN /\ queue' = queue
            /\ hist' = [hist EXCEPT !.calls = @ + 1]
       ELSE /\ queue' = queue_put(queue, [tag |-> hist.submitted + 1, jobs |-> jobs])
            /\ hist' = [hist EXCEPT !.calls = @ + 1, !.submitted = @ + 1,
                                    !.batches = Append(@, jobs),
                                    !.by = Append(@, producer)]
    /\ UNCHANGED <<retired, engine, settings, db, status, worker, minted, cl>>

\* enqueue called by the one producer of the specifications that do not tell
\* producers apart.
Enqueue(jobs) == EnqueueBy("producer1", jobs)

\* _worker: jobs = self.queue.get(); if not jobs: continue
WorkerGet ==
    /\ worker.pc = "get"
    /\ queue # <<>>
    /\ LET g == queue_get(queue)
       IN  /\ queue' = g.rest
           /\ IF g.item.jobs = <<>>
              THEN UNCHANGED <<worker, hist>>
              ELSE /\ worker' = [IdleWorker EXCEPT !.pc = "process_jobs",
                                     !.tag = g.item.tag, !.jobs = g.item.jobs]
                   /\ hist' = [hist EXCEPT !.started = Append(@, g.item.tag),
                                           !.atStart = db,
                                           !.behind = Len(g.rest)]
    /\ UNCHANGED <<retired, engine, settings, db, status, minted, cl>>

\* The state, the total and the processed counter are set on the record there
\* is; the other counters stay.
reset_status_in_place(total) ==
    [status EXCEPT !.state = "running", !.total = total, !.processed = 0,
                   !.error = None]

\* _reset_status
reset_status(total) == TaskStatus("running", total, 0, None)

\* The try/except inside the loop over the jobs: the failure is recorded and
\* the loop goes on with the next job.
except_continue(msg) ==
    /\ status' = TaskStatus("error", 0, 0, msg)
    /\ worker' = [worker EXCEPT !.pc = "for_job", !.i = @ + 1]
    /\ hist' = Ended("error")

\* No try/except: the exception ends the worker thread.
except_uncaught(msg) ==
    /\ status' = TaskStatus("error", 0, 0, msg)
    /\ worker' = [IdleWorker EXCEPT !.pc = "dead"]
    /\ hist' = Ended("error")

\* The except clause marks the record there is as failed and records no
\* message.
except_state_only(msg) ==
    /\ status' = [status EXCEPT !.state = "error"]
    /\ worker' = IdleWorker
    /\ hist' = Ended("error")

\* except Exception as exc: self.status = TaskStatus(state="error", error=str(exc));
\* _process_jobs returns and _worker loops.
except_handler(msg) ==
    /\ status' = TaskStatus("error", 0, 0, msg)
    /\ worker' = IdleWorker
    /\ hist' = Ended("error")

\* No availability check: every batch goes on to the loop.
process_jobs_unchecked ==
    /\ worker.pc = "process_jobs"
    /\ status' = reset_status(Len(worker.jobs))
    /\ worker' = [worker EXCEPT !.pc = "for_job", !.i = 1]
    /\ hist' = hist
    /\ UNCHANGED <<retired, engine, settings, db, queue, minted, cl>>

\* _process_jobs, up to the loop: the availability check and _reset_status.
process_jobs ==
    /\ worker.pc = "process_jobs"
    /\ IF ~engine.available
       THEN /\ status' = TaskStatus("error", 0, 0,
                             Or(error_message, "No face engine available"))
            /\ worker' = IdleWorker
            /\ hist' = Ended("unavailable")
       ELSE /\ status' = reset_status(Len(worker.jobs))
            /\ worker' = [worker EXCEPT !.pc = "for_job", !.i = 1]
            /\ hist' = hist
    /\ UNCHANGED <<retired, engine, settings, db, queue, minted, cl>>

\* for job in jobs: self.status.current = job.orig_name; after the last job the
\* loop ends and _cluster_all is called.
ForJob ==
    /\ worker.pc = "for_job"
    /\ IF worker.i <= Len(worker.jobs)
       THEN /\ status' = [status EXCEPT !.current = worker.jobs[worker.i].orig_name]
            /\ worker' = [worker EXCEPT !.pc = "detect"]
            /\ hist' = [hist EXCEPT
                           !.attempted = Append(@, <<worker.tag, worker.i,
                                                     worker.jobs[worker.i].photo_id>>),
                           !.before = db]
       ELSE /\ status' = status
            /\ worker' = [worker EXCEPT !.pc = "list_faces"]
            /\ hist' = [hist EXCEPT !.reclustered = @ \cup {worker.tag}]
    /\ UNCHANGED <<retired, engine, settings, db, queue, minted, cl>>

\* _process_single: Image.open, convert, detect_and_embed; the face rows carry
\* the engine's model type.  Opening or detection may raise.
Detect ==
    /\ worker.pc = "detect"
    /\ \/ /\ except_handler("cannot identify image file")
          /\ UNCHANGED db
       \/ /\ \E found \in Detectable(worker.jobs[worker.i].photo_id) :
                worker' = [worker EXCEPT !.pc = "add_photo",
                    !.found = Append(@, Len(found)),
                    !.faces = [j \in 1..Len(found) |->
                                  [embedding |-> found[j],
                                   model_type |-> engine.model_type]]]
          /\ UNCHANGED <<status, hist, db>>
    /\ UNCHANGED <<retired, engine, settings, queue, minted, cl>>

\* _process_single: self.db.add_photo(..., no_face=not faces)
AddPhoto ==
    /\ worker.pc = "add_photo"
    /\ \/ /\ except_handler("database error")
          /\ UNCHANGED db
       \/ /\ db' = add_photo(db, worker.jobs[worker.i].photo_id, worker.faces = <<>>)
          /\ worker' = [worker EXCEPT !.pc =
                           IF worker.faces # <<>> THEN "add_faces" ELSE "inc_no_face"]
          /\ UNCHANGED <<status, hist>>
    /\ UNCHANGED <<retired, engine, settings, queue, minted, cl>>

\* _process_single: self.db.add_faces(job.photo_id, face_rows)
AddFaces ==
    /\ worker.pc = "add_faces"
    /\ \/ /\ except_handler("database error")
          /\ UNCHANGED db
       \/ /\ db' = add_faces(db, worker.jobs[worker.i].photo_id, worker.faces)
          /\ worker' = [worker EXCEPT !.pc = "inc_processed"]
          /\ UNCHANGED <<status, hist>>
    /\ UNCHANGED <<retired, engine, settings, queue, minted, cl>>

\* _process_single: self.status.photos_no_face += 1
IncNoFace ==
    /\ worker.pc = "inc_no_face"
    /\ status' = [status EXCEPT !.photos_no_face = @ + 1]
    /\ worker' = [worker EXCEPT !.pc = "inc_processed"]
    /\ UNCHANGED <<retired, engine, settings, db, queue, minted, hist, cl>>

\* processed counts the photos in which faces were found only.
IncProcessedWithFaces ==
    /\ worker.pc = "inc_processed"
    /\ status' = IF worker.faces = <<>> THEN status
                 ELSE [status EXCEPT !.processed = @ + 1]
    /\ worker' = [worker EXCEPT !.pc = "for_job", !.i = @ + 1, !.faces = <<>>]
    /\ UNCHANGED <<retired, engine, settings, db, queue, minted, hist, cl>>

\* self.status.processed += 1, and on to the next job
IncProcessed ==
    /\ worker.pc = "inc_processed"
    /\ status' = [status EXCEPT !.processed = @ + 1]
    /\ worker' = [worker EXCEPT !.pc = "for_job", !.i = @ + 1, !.faces = <<>>]
    /\ UNCHANGED <<retired, engine, settings, db, queue, minted, hist, cl>>

\* _cluster_all: faces_rows = self.db.list_faces(); parsed = [(face_id, emb, model_type)]
ListFaces ==
    /\ worker.pc = "list_faces"
    /\ \/ /\ except_handler("database error")
       \/ /\ worker' = [worker EXCEPT !.pc = "clear_groups",
                !.parsed = [j \in 1..Len(list_faces(db)) |->
                               [id    |-> list_faces(db)[j].id,
                                emb   |-> list_faces(db)[j].embedding,
                                model |-> list_faces(db)[j].model_type]]]
          /\ UNCHANGED <<status, hist>>
    /\ UNCHANGED <<retired, engine, settings, db, queue, minted, cl>>

\* _cluster_all: self.db.clear_groups()
ClearGroups ==
    /\ worker.pc = "clear_groups"
    /\ \/ /\ except_handler("database error")
          /\ UNCHANGED db
       \/ /\ db' = clear_groups(db)
          /\ worker' = [worker EXCEPT !.pc = "cluster"]
          /\ UNCHANGED <<status, hist>>
    /\ UNCHANGED <<retired, engine, settings, queue, minted, cl>>

\* _cluster_all: assignments = self.engine.cluster(parsed)
Cluster ==
    /\ worker.pc = "cluster"
    /\ LET r == cluster(worker.parsed, settings, minted)
       IN  /\ worker' = [worker EXCEPT !.pc = "update_group", !.k = 1,
                                       !.assignments = r.assignments]
           /\ minted' = r.minted
    /\ UNCHANGED <<retired, engine, settings, db, queue, status, hist, cl>>

\* _cluster_all: for face_id, group_id in assignments: self.db.update_group(...)
UpdateGroup ==
    /\ worker.pc = "update_group"
    /\ IF worker.k <= Len(worker.assignments)
       THEN \/ /\ except_handler("database error")
               /\ UNCHANGED db
            \/ /\ db' = update_group(db, worker.assignments[worker.k][1],
                                         worker.assignments[worker.k][2])
               /\ worker' = [worker EXCEPT !.k = @ + 1]
               /\ UNCHANGED <<status, hist>>
       ELSE /\ worker' = [worker EXCEPT !.pc = "set_done"]
            /\ UNCHANGED <<db, status, hist>>
    /\ UNCHANGED <<retired, engine, settings, queue, minted, cl>>

\* self.status.state = "done"
SetDone ==
    /\ worker.pc = "set_done"
    /\ status' = [status EXCEPT !.state = "done"]
    /\ worker' = [worker EXCEPT !.pc = "count_stats"]
    /\ UNCHANGED <<retired, engine, settings, db, queue, minted, hist, cl>>

\* No refresh: photos_no_face stays the counter of this run.
CountStatsSkipped ==
    /\ worker.pc = "count_stats"
    /\ status' = status
    /\ worker' = [worker EXCEPT !.pc = "faces_count"]
    /\ UNCHANGED <<retired, engine, settings, db, queue, minted, hist, cl>>

\* total_photos, photos_no_face = self.db.count_stats();
\* self.status.photos_no_face = photos_no_face
CountStats ==
    /\ worker.pc = "count_stats"
    /\ \/ except_handler("database error")
       \/ /\ status' = [status EXCEPT !.photos_no_face = count_stats(db)[2]]
          /\ worker' = [worker EXCEPT !.pc = "faces_count"]
          /\ UNCHANGED hist
    /\ UNCHANGED <<retired, engine, settings, db, queue, minted, cl>>

\* self.status.faces_found = self.db.faces_count(); _process_jobs returns
FacesCount ==
    /\ worker.pc = "faces_count"
    /\ \/ except_handler("database error")
       \/ /\ status' = [status EXCEPT !.faces_found = faces_count(db)]
          /\ worker' = IdleWorker
          /\ hist' = Ended("done")
    /\ UNCHANGED <<retired, engine, settings, db, queue, minted, cl>>

(***************************************************************************)
(* GET /api/status                                                         *)
(***************************************************************************)
\* status(): s = processor.status; total_photos, photos_no_face = db.count_stats();
\* the response built from the fields of s.  The handler writes nothing: this
\* is the response to a poll that reads every field in the current state, the
\* interleaving in which the worker writes nothing while the handler runs.
status_response ==
    [state |-> status.state, total |-> status.total,
     processed |-> status.processed, current |-> status.current,
     faces_found |-> status.faces_found,
     photos_no_face |-> count_stats(db)[2], error |-> status.error,
     total_photos |-> count_stats(db)[1]]

(***************************************************************************)
(* The processor: producers, the worker, readers                           *)
(***************************************************************************)
Init ==
    /\ engine \in EngineLoads
    /\ settings = DefaultSettings
    /\ db \in {EmptyDb, SeededDb}
    /\ queue = <<>>
    /\ status = TaskStatus("idle", 0, 0, None)
    /\ worker = IdleWorker
    /\ minted = MintedIn(db)
    /\ hist = NoHistory
    /\ cl = IdleCluster
    /\ retired = <<>>

WorkerStep ==
    \/ WorkerGet
    \/ process_jobs
    \/ ForJob
    \/ Detect
    \/ AddPhoto
    \/ AddFaces
    \/ IncNoFace
    \/ IncProcessed
    \/ ListFaces
    \/ ClearGroups
    \/ Cluster
    \/ UpdateGroup
    \/ SetDone
    \/ CountStats
    \/ FacesCount

Next ==
    \/ \E jobs \in Batches : Enqueue(jobs)
    \/ WorkerStep

Spec == Init /\ [][Next]_vars

\* One upload of some of the three example photos, each at most once, to an
\* empty store.
ExampleBatches ==
    {jobs \in SeqsUpTo({PhotoJob(p) : p \in DOMAIN ExampleDetection},
                       Cardinality(DOMAIN ExampleDetection)) :
        \A i, j \in 1..Len(jobs) : jobs[i] = jobs[j] => i = j}

EndToEndInit == Init /\ db = EmptyDb

EndToEndNext ==
    \/ \E jobs \in ExampleBatches : hist.calls = 0 /\ Enqueue(jobs)
    \/ WorkerStep

EndToEndSpec == EndToEndInit /\ [][EndToEndNext]_vars

\* The submissions of the liveness specification: a batch of one photo and a
\* batch of two.
FairBatches == {<<PhotoJob("p1")>>, <<PhotoJob("p1"), PhotoJob("p2")>>}

FairNext ==
    \/ \E jobs \in FairBatches : Enqueue(jobs)
    \/ WorkerStep

\* Several producers call enqueue, in any interleaving with each other and
\* with the worker.
ProducersNext ==
    \/ \E producer \in Producers, jobs \in FairBatches \cup {<<>>} :
          EnqueueBy(producer, jobs)
    \/ WorkerStep

ProducersSpec == Init /\ [][ProducersNext]_vars

\* The worker is a thread of its own: the scheduler lets it run, and every call
\* it makes returns or raises.
FairSpec == Init /\ [][FairNext]_vars /\ WF_vars(WorkerStep)

(***************************************************************************)
(* POST /api/clear-cache.  The handler closes the connection, removes the   *)
(* database file and the photo files, and binds db, face_engine and        *)
(* processor to new objects.  The processor it replaces is not stopped:    *)
(* its worker thread lives on with its queue, its engine and the closed    *)
(* connection, on which every call raises.                                 *)
(***************************************************************************)
MaxClears == 1

\* The methods of Database the worker calls.
StoreCalls ==
    {"add_photo", "add_faces", "list_faces", "clear_groups", "count_stats",
     "faces_count"}

\* clear_cache()
ClearCache ==
    /\ Len(retired) < MaxClears
    /\ retired' = Append(retired, [worker |-> worker, queue |-> queue])
    /\ db' = EmptyDb
    /\ queue' = <<>>
    /\ status' = TaskStatus("idle", 0, 0, None)
    /\ worker' = IdleWorker
    /\ UNCHANGED <<engine, settings, minted, hist, cl>>

\* _worker of a replaced processor: jobs = self.queue.get()
RetiredGet(n) ==
    /\ retired[n].worker.pc = "get"
    /\ retired[n].queue # <<>>
    /\ LET g == queue_get(retired[n].queue)
       IN  retired' = [retired EXCEPT
                         ![n].queue = g.rest,
                         ![n].worker = [IdleWorker EXCEPT !.pc = "process_jobs",
                                            !.tag = g.item.tag,
                                            !.jobs = g.item.jobs]]
    /\ UNCHANGED <<engine, settings, db, queue, status, worker, minted, hist, cl>>

\* What the next statement of _process_jobs leaves of the locals of a replaced
\* processor's worker: the statements that do not touch the store run as in
\* the current worker; a call of the store raises, the except clause is
\* taken and _process_jobs returns.
RetiredSuccessors(w) ==
    CASE w.pc = "process_jobs" ->
            {IF ~engine.available THEN IdleWorker
             ELSE [w EXCEPT !.pc = "for_job", !.i = 1]}
      [] w.pc = "for_job" ->
            {IF w.i <= Len(w.jobs) THEN [w EXCEPT !.pc = "detect"]
             ELSE [w EXCEPT !.pc = "list_faces"]}
      [] w.pc = "detect" ->
            {IdleWorker} \cup
            {[w EXCEPT !.pc = "add_photo",
                       !.found = Append(@, Len(found)),
                       !.faces = [j \in 1..Len(found) |->
                                     [embedding |-> found[j],
                                      model_type |-> engine.model_type]]] :
                found \in Detectable(w.jobs[w.i].photo_id)}
      [] w.pc \in StoreCalls -> {IdleWorker}
      [] w.pc = "inc_no_face" -> {[w EXCEPT !.pc = "inc_processed"]}
      [] w.pc = "inc_processed" ->
            {[w EXCEPT !.pc = "for_job", !.i = @ + 1, !.faces = <<>>]}
      [] w.pc = "cluster" ->
            {[w EXCEPT !.pc = "update_group", !.k = 1,
                       !.assignments = cluster(w.parsed, settings, minted).assignments]}
      [] w.pc = "update_group" ->
            {IF w.k <= Len(w.assignments) THEN IdleWorker
             ELSE [w EXCEPT !.pc = "set_done"]}
      [] w.pc = "set_done" -> {[w EXCEPT !.pc = "count_stats"]}
      [] OTHER -> {}

\* One statement of _process_jobs in the worker of a replaced processor.
RetiredStep(n) ==
    /\ \E w \in RetiredSuccessors(retired[n].worker) :
          retired' = [retired EXCEPT ![n].worker = w]
    /\ minted' = IF retired[n].worker.pc = "cluster"
                 THEN cluster(retired[n].worker.parsed, settings, minted).minted
                 ELSE minted
    /\ UNCHANGED <<engine, settings, db, queue, status, worker, hist, cl>>

\* Uploads, the worker, a cache clear and the workers of replaced processors.
CacheNext ==
    \/ \E jobs \in FairBatches : Enqueue(jobs)
    \/ WorkerStep
    \/ ClearCache
    \/ \E n \in 1..Len(retired) : RetiredGet(n)
    \/ \E n \in 1..Len(retired) : RetiredStep(n)

CacheSpec == Init /\ [][CacheNext]_vars

\* config.get_thresholds()
get_thresholds(s) == s

\* config.set_threshold(engine, value)
set_threshold(s, eng, value) ==
    IF eng = "insightface" THEN [s EXCEPT !.insightface_threshold = value]
    ELSE [s EXCEPT !.facerec_threshold = value]

\* POST /api/settings: a request handler calls set_threshold, whatever the
\* clusterer is doing.
SetThreshold ==
    /\ \E eng \in ModelTypes :
          \E value \in (IF eng = "insightface" THEN InsightThresholds
                        ELSE FacerecThresholds) :
              settings' = set_threshold(settings, eng, value)
    /\ UNCHANGED <<retired, engine, db, queue, status, worker, minted, hist, cl>>

\* The threshold is read again for every item, not once for the call.
StepOneLive(model, run, item, thresholds) ==
    IF model = "face_recognition"
    THEN EuclideanStep(run, item, settings.facerec_threshold)
    ELSE CosineStep(run, item, settings.insightface_threshold)

(***************************************************************************)
(* One call of FaceEngine.cluster, one loop iteration at a time.           *)
(* cl.last remembers, for the properties, the iteration just made: the     *)
(* clusters before it, the embedding compared and the cluster it joined    *)
(* (0 when a new cluster was opened) and the settings as they were then.   *)
(* POST /api/settings may change a threshold at any moment.  The caller    *)
(* makes two calls with the same list, as two reclustering passes over an  *)
(* unchanged store do;                                                     *)
(* cl.first keeps what the first call read and returned, cl.start the      *)
(* number of group ids minted when the current call began.                 *)
(***************************************************************************)
FaceChoices == UNION {{[emb |-> e, model |-> m] : e \in Embeddings(m)} : m \in ModelTypes}

\* The input lists: the face ids are the positions.
FaceLists ==
    {[j \in 1..Len(raw) |-> [id |-> j, emb |-> raw[j].emb, model |-> raw[j].model]] :
        raw \in SeqsUpTo(FaceChoices, MaxFaces)}

ThresholdSettings ==
    {Settings(i, f) : i \in InsightThresholds, f \in FacerecThresholds}

ClusterInit ==
    /\ engine = [model_type |-> "insightface", available |-> TRUE, init_error |-> None]
    /\ settings \in ThresholdSettings
    /\ db = EmptyDb
    /\ queue = <<>>
    /\ status = TaskStatus("idle", 0, 0, None)
    /\ worker = IdleWorker
    /\ minted = 0
    /\ hist = NoHistory
    /\ retired = <<>>
    /\ \E faces \in FaceLists : cl = [IdleCluster EXCEPT !.pc = "call", !.faces = faces]

\* cluster(): the empty input returns at once; else by_model is built and
\* get_thresholds() is read, once.
ClusterCall ==
    /\ cl.pc = "call"
    /\ IF cl.faces = <<>>
       THEN cl' = [cl EXCEPT !.pc = "return"]
       ELSE cl' = [cl EXCEPT !.pc = "loop", !.groups = by_model(cl.faces),
                             !.thresholds = get_thresholds(settings), !.m = 1, !.k = 1,
                             !.run = FreshRun(cl.run.minted)]
    /\ UNCHANGED <<retired, engine, settings, db, queue, status, worker, minted, hist>>

\* The embedding _cluster_cosine / _cluster_euclidean compares for an item.
Compared(model, item) ==
    IF model = "face_recognition" THEN item.emb ELSE Normalize(item.emb)

\* The cluster the scan of the current item stops at.
Scanned(model, clusters, item, thresholds) ==
    IF model = "face_recognition"
    THEN ScanEuclidean(clusters, item.emb, thresholds.facerec_threshold, 1)
    ELSE ScanCosine(clusters, Normalize(item.emb), thresholds.insightface_threshold, 1)

\* One iteration of "for face_id, emb in items" in the method cluster() chose
\* for the model type.
StepOne(model, run, item, thresholds) ==
    IF model = "face_recognition"
    THEN EuclideanStep(run, item, thresholds.facerec_threshold)
    ELSE CosineStep(run, item, thresholds.insightface_threshold)

ClusterItem ==
    /\ cl.pc = "loop"
    /\ cl.k <= Len(cl.groups[cl.m].items)
    /\ LET g == cl.groups[cl.m]
           item == g.items[cl.k]
       IN  cl' = [cl EXCEPT
                    !.run = StepOne(g.model, cl.run, item, cl.thresholds),
                    !.k = @ + 1,
                    !.last = [model  |-> g.model,
                              idx    |-> Scanned(g.model, cl.run.clusters, item,
                                                 cl.thresholds),
                              emb    |-> Compared(g.model, item),
                              before |-> cl.run.clusters,
                              live   |-> settings]]
    /\ UNCHANGED <<retired, engine, settings, db, queue, status, worker, minted, hist>>

\* The next pass: cluster() is called again with the same list.
ClusterAgain ==
    /\ cl.pc = "return"
    /\ cl.pass = 1
    /\ cl' = [cl EXCEPT !.pc = "call", !.pass = 2, !.start = cl.run.minted,
                        !.first = [thresholds |-> cl.thresholds,
                                   assignments |-> cl.assignments],
                        !.assignments = <<>>, !.groups = <<>>, !.m = 0, !.k = 0]
    /\ UNCHANGED <<retired, engine, settings, db, queue, status, worker, minted, hist>>

\* return results; assignments.extend(...); the next model type starts with
\* no cluster, and after the last one cluster() returns.
ClusterExtend ==
    /\ cl.pc = "loop"
    /\ cl.k > Len(cl.groups[cl.m].items)
    /\ IF cl.m < Len(cl.groups)
       THEN cl' = [cl EXCEPT !.assignments = @ \o cl.run.results,
                             !.m = @ + 1, !.k = 1,
                             !.run = FreshRun(cl.run.minted)]
       ELSE cl' = [cl EXCEPT !.assignments = @ \o cl.run.results, !.pc = "return"]
    /\ UNCHANGED <<retired, engine, settings, db, queue, status, worker, minted, hist>>

ClusterNext ==
    \/ ClusterCall
    \/ ClusterItem
    \/ ClusterExtend
    \/ ClusterAgain

ClusterSpec == ClusterInit /\ [][ClusterNext]_vars

\* The same calls while request handlers change the thresholds.
ThresholdsNext ==
    \/ ClusterNext
    \/ SetThreshold

ThresholdsSpec == ClusterInit /\ [][ThresholdsNext]_vars

\* The step-by-step call returns what the operator cluster returns.
ClusterStepsAgree ==
    cl.pc = "return" =>
        cl.assignments = cluster(cl.faces, cl.thresholds, cl.start).assignments

(***************************************************************************)
(* Properties of the clusterer (ClusterSpec)                               *)
(***************************************************************************)
Min(S) == CHOOSE i \in S : \A j \in S : i <= j

\* r > t on rationals
Gt(r, t) == r.n * t.d > t.n * r.d

\* The model type of the input face with this id.
FaceModel(id) == cl.faces[id].model

\* The (face_id, gid) pairs produced so far in the call.
Labelled == IF cl.pc = "loop" THEN cl.assignments \o cl.run.results ELSE cl.assignments

\* The faces that joined the cluster with this gid in the running method call.
Members(gid) == {cl.run.results[r][1] : r \in {q \in 1..Len(cl.run.results) :
                                                cl.run.results[q][2] = gid}}

\* The threshold test of the method cluster() chose for the model type.
Passes(model, emb, centroid, thresholds) ==
    IF model = "face_recognition"
    THEN EuclideanMatch(emb, centroid, thresholds.facerec_threshold)
    ELSE CosineMatch(emb, centroid, thresholds.insightface_threshold)

\* The compared value is exactly the threshold.
AtThreshold(model, emb, centroid, thresholds) ==
    IF model = "face_recognition"
    THEN LET t == thresholds.facerec_threshold
             dsq == NormSq(Sub(emb, centroid))
         IN  t.n >= 0 /\ dsq.n * t.d * t.d = t.n * t.n * dsq.d
    ELSE LET t == thresholds.insightface_threshold
             sim == Dot(emb, centroid)
         IN  sim.n * t.d = t.n * sim.d

\* The compared value is strictly on the matching side of the threshold.
StrictlyInside(model, emb, centroid, thresholds) ==
    IF model = "face_recognition"
    THEN LET t == thresholds.facerec_threshold
             dsq == NormSq(Sub(emb, centroid))
         IN  t.n > 0 /\ dsq.n * t.d * t.d < t.n * t.n * dsq.d
    ELSE Gt(Dot(emb, centroid), thresholds.insightface_threshold)

\* A step of ClusterSpec that is one loop iteration over an item.
IsItemStep == cl.pc = "loop" /\ cl'.pc = "loop" /\ cl'.m = cl.m /\ cl'.k = cl.k + 1

\* C8: clustering never merges or compares faces of different model types.
\* Two faces with different model_type tags never share a group label, and
\* while a method call runs, every item it is given and every member of every
\* cluster an item is tested against has the model type of that call.
C8_NoCrossTypeClustering ==
    /\ \A i, j \in 1..Len(Labelled) :
          FaceModel(Labelled[i][1]) # FaceModel(Labelled[j][1])
              => Labelled[i][2] # Labelled[j][2]
    /\ cl.pc = "loop" =>
          LET g == cl.groups[cl.m]
          IN  /\ \A q \in 1..Len(g.items) : g.items[q].model = g.model
              /\ \A c \in 1..Len(cl.run.clusters) :
                    /\ Members(cl.run.clusters[c].gid) # {}
                    /\ \A id \in Members(cl.run.clusters[c].gid) : FaceModel(id) = g.model

\* C8 witness: the call has returned, and two faces of different model types
\* whose embeddings would have matched under the cosine test carry different
\* labels.
C8_Witness ==
    /\ cl.pc = "return"
    /\ \E i, j \in 1..Len(cl.faces) :
          /\ cl.faces[i].model # cl.faces[j].model
          /\ CosineMatch(Normalize(cl.faces[i].emb), Normalize(cl.faces[j].emb),
                         cl.thresholds.insightface_threshold)
          /\ \E a, b \in 1..Len(cl.assignments) :
                /\ cl.assignments[a][1] = i
                /\ cl.assignments[b][1] = j
                /\ cl.assignments[a][2] # cl.assignments[b][2]

\* C9: greedy first fit in cluster-creation order.  In every loop iteration the
\* face joins the earliest-opened cluster whose centroid passes the threshold
\* test, whatever the later clusters are, and no other cluster changes; when no
\* cluster passes, one new cluster holding just that face is appended.
C9_FirstFit ==
    [][ IsItemStep =>
          LET model == cl.groups[cl.m].model
              item == cl.groups[cl.m].items[cl.k]
              emb == Compared(model, item)
              before == cl.run.clusters
              after == cl'.run.clusters
              passing == {i \in 1..Len(before) :
                             Passes(model, emb, before[i].centroid, cl.thresholds)}
              res == cl'.run.results
              gid == res[Len(res)][2]
          IN  /\ Len(res) = Len(cl.run.results) + 1
              /\ res[Len(res)][1] = item.id
              /\ IF passing # {}
                 THEN /\ gid = before[Min(passing)].gid
                      /\ Len(after) = Len(before)
                      /\ after[Min(passing)].count = before[Min(passing)].count + 1
                      /\ \A i \in 1..Len(before) : i # Min(passing) => after[i] = before[i]
                 ELSE /\ Len(after) = Len(before) + 1
                      /\ SubSeq(after, 1, Len(before)) = before
                      /\ after[Len(after)] = [gid |-> gid, centroid |-> emb, count |-> 1]
                      /\ \A i \in 1..Len(before) : before[i].gid # gid
      ]_vars

\* C9 witness: a face has just joined a cluster although a cluster opened
\* later is strictly more similar to it (and passes the test too).
C9_Witness ==
    /\ cl.last.model = "insightface"
    /\ cl.last.idx # 0
    /\ \E j \in (cl.last.idx + 1)..Len(cl.last.before) :
          /\ CosineMatch(cl.last.emb, cl.last.before[j].centroid,
                         cl.thresholds.insightface_threshold)
          /\ Gt(Dot(cl.last.emb, cl.last.before[j].centroid),
                Dot(cl.last.emb, cl.last.before[cl.last.idx].centroid))

\* C10: the threshold test is inclusive.  When the value compared with some
\* centroid equals the threshold exactly, the face opens no new cluster: it
\* joins that cluster, unless an earlier cluster is strictly inside the
\* threshold or also exactly at it (first fit), and then it joins that one.
C10_BoundaryInclusive ==
    [][ IsItemStep =>
          LET model == cl.groups[cl.m].model
              item == cl.groups[cl.m].items[cl.k]
              emb == Compared(model, item)
              before == cl.run.clusters
              after == cl'.run.clusters
              boundary == {i \in 1..Len(before) :
                              AtThreshold(model, emb, before[i].centroid, cl.thresholds)}
              res == cl'.run.results
              gid == res[Len(res)][2]
          IN  boundary # {} =>
                /\ Len(after) = Len(before)
                /\ \E i \in 1..Min(boundary) : gid = before[i].gid
                /\ (\A i \in 1..(Min(boundary) - 1) :
                       ~StrictlyInside(model, emb, before[i].centroid, cl.thresholds))
                      => gid = before[Min(boundary)].gid
      ]_vars

\* C10 witness: a face has just joined a cluster whose centroid is at a
\* Euclidean distance from it exactly equal to the threshold.
C10_Witness ==
    /\ cl.last.model = "face_recognition"
    /\ cl.last.idx # 0
    /\ AtThreshold("face_recognition", cl.last.emb,
                   cl.last.before[cl.last.idx].centroid, cl.thresholds)

\* The same, in cosine space.
CosineBoundaryReached ==
    /\ cl.last.model = "insightface"
    /\ cl.last.idx # 0
    /\ AtThreshold("insightface", cl.last.emb,
                   cl.last.before[cl.last.idx].centroid, cl.thresholds)

(***************************************************************************)
(* Properties of the processor (Spec, FairSpec)                            *)
(***************************************************************************)
LastStarted == hist.started[Len(hist.started)]

\* The worker is back at queue.get() after a batch.
JustEnded ==
    /\ worker.pc = "get"
    /\ hist.started # <<>>
    /\ LastStarted \in DOMAIN hist.outcome

LastOutcome == hist.outcome[LastStarted]

\* Where the worker is inside _process_single.
JobPcs == {"detect", "add_photo", "add_faces"}

AllLabelled(d) == \A j \in 1..Len(d.faces) : d.faces[j].group_id # NULL

AllCleared(d) == \A j \in 1..Len(d.faces) : d.faces[j].group_id = NULL

\* C1: batches are processed one at a time in the order of their submission,
\* and the jobs of a batch in list order.  The worker takes the batches in
\* submission order, takes one only when every batch taken before has ended,
\* attempts a job of a batch only when every earlier batch has ended, and
\* attempts the jobs of a batch as job 1, 2, 3, ... of the submitted list.
C1_OneBatchAtATimeInOrder ==
    /\ \A n \in 1..Len(hist.started) : hist.started[n] = n
    /\ \A n \in 1..(Len(hist.started) - 1) : hist.started[n] \in DOMAIN hist.outcome
    /\ \A n \in 1..Len(hist.attempted) :
          LET a == hist.attempted[n]
          IN  /\ a[1] \in 1..hist.submitted
              /\ a[2] \in 1..Len(hist.batches[a[1]])
              /\ a[3] = hist.batches[a[1]][a[2]].photo_id
              /\ \A b \in 1..(a[1] - 1) : b \in DOMAIN hist.outcome
              /\ IF n = 1 \/ hist.attempted[n - 1][1] # a[1]
                 THEN a[2] = 1
                 ELSE a[2] = hist.attempted[n - 1][2] + 1
              /\ n > 1 => hist.attempted[n - 1][1] <= a[1]

\* C1 witness: two batches of two jobs each, both jobs of both attempted.
C1_Witness ==
    /\ Len(hist.started) = 2
    /\ \E n, m \in 1..Len(hist.attempted) :
          /\ hist.attempted[n][1] = 1 /\ hist.attempted[n][2] = 2
          /\ hist.attempted[m][1] = 2 /\ hist.attempted[m][2] = 2

\* C2: a reader of the status record sees the fields of one transition only.
\* For the transition to done, which sets the state and refreshes the two
\* counters from the store: whenever the record (and the response of
\* GET /api/status built from it) says done, faces_found and photos_no_face
\* are the store's totals.
C2_ConsistentSnapshot ==
    /\ status.state = "done" =>
          /\ status.faces_found = faces_count(db)
          /\ status.photos_no_face = count_stats(db)[2]
    /\ status_response.state = "done" =>
          status_response.faces_found = faces_count(db)

C4_EveryBatchEnds ==
    \A b \in 1..MaxEnqueue : (hist.submitted >= b) ~> (b \in DOMAIN hist.outcome)

\* C4 witness: batch 1 failed while batch 2 was waiting in the queue, and
\* batch 2 has been processed to done.
C4_Witness ==
    /\ 2 \in DOMAIN hist.outcome
    /\ hist.outcome[1].kind = "error"
    /\ hist.outcome[1].waiting = 1
    /\ hist.outcome[2].kind = "done"

\* C5: with the detector unavailable, every batch taken ends with the status
\* set to a fresh error record carrying the availability message (the default
\* message when none is recorded), no job of it attempted, no reclustering, and
\* the store exactly as it was when the batch was taken.
C5_UnavailableTouchesNothing ==
    /\ ~engine.available =>
          \A b \in DOMAIN hist.outcome : hist.outcome[b].kind = "unavailable"
    /\ \A b \in DOMAIN hist.outcome :
          hist.outcome[b].kind = "unavailable" =>
              /\ b \notin hist.reclustered
              /\ \A n \in 1..Len(hist.attempted) : hist.attempted[n][1] # b
    /\ (JustEnded /\ LastOutcome.kind = "unavailable") =>
          /\ status = TaskStatus("error", 0, 0,
                          IF engine.init_error # None THEN engine.init_error
                          ELSE "No face engine available")
          /\ db = hist.atStart

\* C5 witness: two batches have been taken with the detector unavailable, and
\* the store still holds its photo and its labelled face.
C5_Witness ==
    /\ JustEnded
    /\ Len(hist.started) = 2
    /\ LastOutcome.kind = "unavailable"
    /\ db = SeededDb

\* C6: once the reclustering step has completed, and whenever the status says
\* done, no stored face is unlabelled.
C6_AllLabelledAfterReclustering ==
    (worker.pc \in {"set_done", "count_stats", "faces_count"} \/ status.state = "done")
        => AllLabelled(db)

\* C6 witness: the status says done for batch 2 after batch 1 persisted faces
\* and failed before its reclustering; the store holds faces of both.
C6_Witness ==
    /\ status.state = "done"
    /\ JustEnded
    /\ LastStarted = 2
    /\ hist.outcome[1].kind = "error"
    /\ 1 \notin hist.reclustered
    /\ hist.outcome[1].faces1 > hist.outcome[1].faces0
    /\ Len(db.faces) > hist.outcome[1].faces1

\* The reclustering pass has written every label.
PassCompleted == worker.pc = "set_done"

\* The reclustering pass has failed in one of its update_group calls.
PassFailedInWriteBack ==
    JustEnded /\ LastOutcome.kind = "error" /\ LastOutcome.pc = "update_group"

\* The faces whose label the write-back has written before its k-th call.
Written(assignments, k) == {assignments[n][1] : n \in 1..(k - 1)}

\* The label the pass assigned to a face.
LabelOf(assignments, id) ==
    assignments[CHOOSE n \in 1..Len(assignments) : assignments[n][1] = id][2]

\* Every face the write-back has reached carries the label the pass assigned
\* to it, and every other face is unlabelled.
ClearedThenAssigned(assignments, k) ==
    \A j \in 1..Len(db.faces) :
        IF db.faces[j].id \in Written(assignments, k)
        THEN db.faces[j].group_id = LabelOf(assignments, db.faces[j].id)
        ELSE db.faces[j].group_id = NULL

\* C7 as claimed: when a reclustering pass ends, by completing or by failing
\* part-way through the write-back, every face is labelled or every label is
\* cleared.
C7_AllOrNothing ==
    (PassCompleted \/ PassFailedInWriteBack) => (AllLabelled(db) \/ AllCleared(db))

\* C7 as amended: a face has one label or none; a pass that completes leaves
\* every face labelled; during the write-back, and after it failed part-way,
\* every face it has reached carries the label this pass assigned to it and
\* every other face is unlabelled (none keeps a label of an earlier pass).
C7_ClearedThenAssigned ==
    /\ \A j \in 1..Len(db.faces) : db.faces[j].group_id \in 0..minted
    /\ PassCompleted => AllLabelled(db)
    /\ worker.pc = "update_group" => ClearedThenAssigned(worker.assignments, worker.k)
    /\ PassFailedInWriteBack =>
          ClearedThenAssigned(LastOutcome.assignments, LastOutcome.k)

\* C7 witness: the write-back has failed after writing some labels and before
\* writing others.
C7_Witness ==
    /\ PassFailedInWriteBack
    /\ LastOutcome.k >= 2
    /\ ~AllLabelled(db)
    /\ ~AllCleared(db)

\* Two assignment lists group the same faces together.
SamePartition(a, b) ==
    /\ Len(a) = Len(b)
    /\ \A i \in 1..Len(a) : a[i][1] = b[i][1]
    /\ \A i, j \in 1..Len(a) : (a[i][2] = a[j][2]) <=> (b[i][2] = b[j][2])

\* The group labels of an assignment list.
LabelsOf(a) == {a[i][2] : i \in 1..Len(a)}

\* The second call has returned, and it read the thresholds the first one read.
SecondRunSameThresholds ==
    cl.pc = "return" /\ cl.pass = 2 /\ cl.thresholds = cl.first.thresholds

SwapLastTwo(faces) ==
    LET n == Len(faces)
        from(j) == IF j = n THEN n - 1 ELSE IF j = n - 1 THEN n ELSE j
    IN  [j \in 1..n |-> [id |-> j, emb |-> faces[from(j)].emb,
                         model |-> faces[from(j)].model]]

\* The partition an assignment list makes of the faces, as sets of embeddings.
GroupsOf(faces, a) ==
    {{faces[a[i][1]].emb : i \in {j \in 1..Len(a) : a[j][2] = g}} : g \in LabelsOf(a)}

\* Two inputs whose partition depends on the order: three points on a line for
\* the Euclidean method at threshold 2/5, three directions for the cosine
\* method at threshold 3/5.
DriftCases ==
    { [model |-> "face_recognition", threshold |-> Rat(2, 5),
       embs |-> <<Vec(0, 0, 1), Vec(2, 0, 5), Vec(1, 0, 2)>>],
      [model |-> "insightface", threshold |-> Rat(3, 5),
       embs |-> <<Vec(3, 4, 1), Vec(1, 0, 1), Vec(0, 1, 1)>>] }

\* The threshold the call applies to a model type.
ThresholdFor(model, thresholds) ==
    IF model = "face_recognition" THEN thresholds.facerec_threshold
    ELSE thresholds.insightface_threshold

\* The call has returned and its input was one of the drift cases.
ReturnedDriftCase ==
    /\ cl.pc = "return"
    /\ \E c \in DriftCases :
          /\ Len(cl.faces) = Len(c.embs)
          /\ \A j \in 1..Len(cl.faces) :
                cl.faces[j].model = c.model /\ cl.faces[j].emb = c.embs[j]
          /\ ThresholdFor(c.model, cl.thresholds) = c.threshold

\* In this order the last face is grouped with the first one although it fails
\* the threshold test against the first one's embedding, or is kept apart from
\* it although it passes: the centroid it met had moved.
DriftDecided(faces, a) ==
    LET n == Len(faces)
        model == faces[1].model
        together == \E i, j \in 1..Len(a) :
                        a[i][1] = 1 /\ a[j][1] = n /\ a[i][2] = a[j][2]
        passes == Passes(model, Compared(model, faces[n]), Compared(model, faces[1]),
                         cl.thresholds)
    IN  together # passes

\* C12: cluster membership depends on the input order.  For each of the two
\* drift cases, the order given and the order with the last two faces swapped
\* produce different partitions of the same faces, and in one of the two orders
\* the last face's group is decided by a centroid that had moved away from the
\* first member's embedding.
C12_OrderDependent ==
    ReturnedDriftCase =>
        LET other == SwapLastTwo(cl.faces)
            swapped == cluster(other, cl.thresholds, cl.run.minted).assignments
        IN  /\ GroupsOf(cl.faces, cl.assignments) # GroupsOf(other, swapped)
            /\ \/ DriftDecided(cl.faces, cl.assignments)
               \/ DriftDecided(other, swapped)

\* C12 witness: the call on the three points 0, 2/5, 1/2 at threshold 2/5 has
\* returned one group of three faces; the swapped order separates 1/2.
C12_Witness ==
    /\ ReturnedDriftCase
    /\ cl.faces[1].model = "face_recognition"
    /\ Cardinality(LabelsOf(cl.assignments)) = 1
    /\ Cardinality(LabelsOf(cluster(SwapLastTwo(cl.faces), cl.thresholds,
                                    cl.run.minted).assignments)) = 2

\* The cosine drift case has returned too.
CosineDriftCaseReached == ReturnedDriftCase /\ cl.faces[1].model = "insightface"

\* The batch the worker took last has ended done.
BatchDone == JustEnded /\ LastOutcome.kind = "done"

\* C14: when a batch has finished successfully the status has state done,
\* processed equal to total (the size of the batch), faces_found equal to the
\* number of faces in the whole store and photos_no_face equal to the number
\* of no-face photos in the whole store.
C14_DoneStatusGlobalTotals ==
    BatchDone =>
        /\ status.state = "done"
        /\ status.total = Len(hist.batches[LastStarted])
        /\ status.processed = status.total
        /\ status.faces_found = faces_count(db)
        /\ status.photos_no_face = count_stats(db)[2]
        /\ status.error = None

\* C14 witness: the second batch has finished; the store holds faces and a
\* no-face photo that this batch did not add, and the status counts them.
C14_Witness ==
    /\ BatchDone
    /\ LastStarted = 2
    /\ LastOutcome.faces0 > 0
    /\ status.faces_found > LastOutcome.faces1 - LastOutcome.faces0
    /\ \E p \in DOMAIN db.photos :
          /\ db.photos[p]
          /\ \A j \in 1..Len(hist.batches[2]) : hist.batches[2][j].photo_id # p

(***************************************************************************)
(* Properties of one upload to an empty store (EndToEndSpec)               *)
(***************************************************************************)
\* The (job, face) pairs detected over a batch of example photos.
DetectedOver(jobs) ==
    UNION {{<<j, k>> : k \in 1..Len(ExampleDetection[jobs[j].photo_id])} :
              j \in 1..Len(jobs)}

\* The jobs of the batch in whose photo no face is detected.
FacelessIn(jobs) == {j \in 1..Len(jobs) : ExampleDetection[jobs[j].photo_id] = <<>>}

\* The group labels in the store.
LabelsIn(d) == {d.faces[j].group_id : j \in 1..Len(d.faces)} \ {NULL}

\* The face rows of a photo.
FacesOfPhoto(d, photo_id) == {j \in 1..Len(d.faces) : d.faces[j].photo_id = photo_id}

\* list_faces as _cluster_all hands it to the clusterer.
ParsedFaces(d) ==
    [j \in 1..Len(d.faces) |->
        [id |-> d.faces[j].id, emb |-> d.faces[j].embedding,
         model |-> d.faces[j].model_type]]

\* The one batch of the run has ended done.
UploadDone == JustEnded /\ LastOutcome.kind = "done"

\* C13: after a batch of photos not stored before has been processed to done
\* on an empty store, faces_count() is the number of faces detected over the
\* batch, count_stats() is (jobs, jobs without a face), a photo without a face
\* has no face row, and the distinct labels are as many as the clusters of the
\* first-fit pass over the stored faces; for the batch A, B, C that is 3 faces,
\* (3, 1), and 2 labels, one shared by the two faces of A.
C13_EndToEndCounts ==
    UploadDone =>
        LET jobs == hist.batches[LastStarted]
        IN  /\ faces_count(db) = Cardinality(DetectedOver(jobs))
            /\ count_stats(db) = <<Len(jobs), Cardinality(FacelessIn(jobs))>>
            /\ \A j \in FacelessIn(jobs) : FacesOfPhoto(db, jobs[j].photo_id) = {}
            /\ Cardinality(LabelsIn(db)) =
                  Cardinality(LabelsOf(cluster(ParsedFaces(db), settings, 0).assignments))
            /\ AllLabelled(db)
            /\ {jobs[j].photo_id : j \in 1..Len(jobs)} = {"A", "B", "C"} =>
                  /\ faces_count(db) = 3
                  /\ count_stats(db) = <<3, 1>>
                  /\ Cardinality(LabelsIn(db)) = 2
                  /\ \A i, j \in FacesOfPhoto(db, "A") :
                        db.faces[i].group_id = db.faces[j].group_id
                  /\ \A i \in FacesOfPhoto(db, "A"), j \in FacesOfPhoto(db, "B") :
                        db.faces[i].group_id # db.faces[j].group_id

\* C13 witness: the batch A, B, C has been processed to done.
C13_Witness ==
    /\ UploadDone
    /\ hist.batches[LastStarted] = <<PhotoJob("A"), PhotoJob("B"), PhotoJob("C")>>
    /\ faces_count(db) = 3

(***************************************************************************)
(* Properties of the store (Spec)                                          *)
(***************************************************************************)
\* C15: in every reachable state of the store, a photo whose no-face flag is
\* set has no face row.
C15_NoFaceFlagMeansNoFaces ==
    \A p \in DOMAIN db.photos : db.photos[p] => FacesOfPhoto(db, p) = {}

(***************************************************************************)
(* Properties of the queue under several producers (ProducersSpec)         *)
(***************************************************************************)
\* The tags of the batches waiting in the queue, in queue order.
Waiting == [n \in 1..Len(queue) |-> queue[n].tag]

\* C16: enqueue is safe under concurrent producers.  Every submitted non-empty
\* batch is, at any time, either waiting in the queue or taken by the worker,
\* never both and never twice; the batch waiting or taken is the list that was
\* submitted; and the batches of one producer are taken in the order that
\* producer submitted them.
C16_EveryBatchOnceInProducerOrder ==
    /\ \A m, n \in 1..Len(hist.started) : hist.started[m] = hist.started[n] => m = n
    /\ \A m, n \in 1..Len(queue) : Waiting[m] = Waiting[n] => m = n
    /\ {hist.started[n] : n \in 1..Len(hist.started)}
          \cup {Waiting[n] : n \in 1..Len(queue)} = 1..hist.submitted
    /\ {hist.started[n] : n \in 1..Len(hist.started)}
          \cap {Waiting[n] : n \in 1..Len(queue)} = {}
    /\ \A n \in 1..Len(queue) : queue[n].jobs = hist.batches[queue[n].tag]
    /\ worker.tag # 0 => worker.jobs = hist.batches[worker.tag]
    /\ \A n \in 1..Len(hist.attempted) :
          \A m \in 1..Len(hist.attempted) :
              (hist.attempted[m][1] = hist.attempted[n][1]
                  /\ hist.attempted[m][2] = hist.attempted[n][2]) => m = n
    /\ \A m, n \in 1..Len(hist.started) :
          (m < n /\ hist.by[hist.started[m]] = hist.by[hist.started[n]])
              => hist.started[m] < hist.started[n]
    /\ \A m, n \in 1..Len(queue) :
          (m < n /\ hist.by[Waiting[m]] = hist.by[Waiting[n]]) => Waiting[m] < Waiting[n]

\* C16 witness: a batch of one producer was put while the worker was running a
\* batch of the other producer, and both have been taken and ended.
C16_Witness ==
    /\ Len(hist.started) = 2
    /\ hist.by[1] # hist.by[2]
    /\ 2 \in DOMAIN hist.outcome
    /\ hist.outcome[1].waiting = 1

\* Two batches of the same producer have both been taken and ended.
SameProducerTwiceReached ==
    /\ Len(hist.started) = 2
    /\ hist.by[1] = hist.by[2]
    /\ 2 \in DOMAIN hist.outcome

(***************************************************************************)
(* Properties of the thresholds of a pass (ThresholdsSpec)                 *)
(***************************************************************************)
\* The cluster the scan stops at under given thresholds, 0 when none passes.
FirstPassing(model, emb, clusters, thresholds) ==
    LET passing == {i \in 1..Len(clusters) :
                       Passes(model, emb, clusters[i].centroid, thresholds)}
    IN  IF passing = {} THEN 0 ELSE Min(passing)

\* C17: each pass reads the pair of thresholds once and uses it for all its
\* faces.  The call reads the settings as they are when it starts and opens
\* no cluster before; while it assigns faces the pair it applies stays the
\* one it read, whatever set_threshold does meanwhile; every face joins the
\* cluster chosen under that pair; and what the call returns is what the
\* clusterer returns for the list under that pair alone.
C17_ThresholdsReadOncePerPass ==
    [][ /\ (cl.pc = "call" /\ cl'.pc = "loop") =>
              /\ cl'.thresholds = settings
              /\ cl'.run.clusters = <<>>
        /\ cl.pc = "loop" => cl'.thresholds = cl.thresholds
        /\ IsItemStep =>
              cl'.last.idx = FirstPassing(cl'.last.model, cl'.last.emb,
                                          cl'.last.before, cl.thresholds)
        /\ (cl.pc = "loop" /\ cl'.pc = "return") =>
              cl'.assignments = cluster(cl.faces, cl.thresholds, cl.start).assignments
      ]_vars

\* C17 witness: a face has just been assigned in a pass after set_threshold
\* changed the settings during that pass, and the settings as they were at that
\* moment would have put the face elsewhere.
C17_Witness ==
    /\ cl.pc = "loop"
    /\ cl.k > 2
    /\ cl.last.live # cl.thresholds
    /\ cl.last.idx # FirstPassing(cl.last.model, cl.last.emb, cl.last.before,
                                  cl.last.live)

\* The second pass has read thresholds that set_threshold changed during the
\* first pass, and groups the same faces otherwise.
ChangeTakesEffectOnNextPass ==
    /\ cl.pc = "return"
    /\ cl.pass = 2
    /\ cl.thresholds # cl.first.thresholds
    /\ ~SamePartition(cl.first.assignments, cl.assignments)

(***************************************************************************)
(* Properties of a batch in flight (FairSpec)                              *)
(***************************************************************************)
\* The worker is inside _process_jobs.
InFlight == worker.pc # "get"

\* The jobs of batch b attempted so far.
AttemptedOf(b) == {n \in 1..Len(hist.attempted) : hist.attempted[n][1] = b}

\* C18: no cancellation and no stuck batch.  The batch in flight is the one
\* the worker took, with the jobs submitted; it stays in flight, the same,
\* until it ends with its outcome recorded; it ends done only after every job
\* of it was attempted and every assignment of its reclustering written, and
\* otherwise at its failure; a call of enqueue changes neither the worker, its
\* batch, the status, the store nor the batches already waiting; the status
\* says running only while a batch is in flight, and whenever it says running
\* it later says done or error.
C18_NoCancellationNoStuckBatch ==
    /\ [](InFlight => /\ worker.tag = LastStarted
                      /\ worker.tag \notin DOMAIN hist.outcome
                      /\ worker.jobs = hist.batches[worker.tag])
    /\ [](status.state = "running" => InFlight)
    /\ [](\A b \in DOMAIN hist.outcome :
             IF hist.outcome[b].kind = "done"
             THEN /\ Cardinality(AttemptedOf(b)) = Len(hist.batches[b])
                  /\ b \in hist.reclustered
                  /\ hist.outcome[b].k = Len(hist.outcome[b].assignments) + 1
             ELSE hist.outcome[b].kind \in {"error", "unavailable"})
    /\ [][ /\ InFlight =>
                \/ /\ InFlight'
                   /\ worker'.tag = worker.tag
                   /\ worker'.jobs = worker.jobs
                \/ /\ ~InFlight'
                   /\ worker.tag \in DOMAIN hist'.outcome
           /\ hist'.calls # hist.calls =>
                /\ UNCHANGED <<worker, status, db, minted>>
                /\ Len(queue') >= Len(queue)
                /\ SubSeq(queue', 1, Len(queue)) = queue
         ]_vars
    /\ (status.state = "running") ~> (status.state \in {"done", "error"})

\* C18 witness: a batch of two jobs was taken with nothing waiting behind it,
\* another batch was submitted while it was in flight, and it has ended done.
C18_Witness ==
    /\ JustEnded
    /\ LastStarted = 1
    /\ LastOutcome.kind = "done"
    /\ Len(hist.batches[1]) = 2
    /\ hist.behind = 0
    /\ LastOutcome.waiting = 1

\* A batch was submitted while another was in flight, which then failed.
FailedWithBatchSubmittedMeanwhile ==
    /\ JustEnded
    /\ LastStarted = 1
    /\ LastOutcome.kind = "error"
    /\ hist.behind = 0
    /\ LastOutcome.waiting = 1

(***************************************************************************)
(* Properties of the status of a running batch (Spec)                      *)
(***************************************************************************)
\* The jobs of the batch in flight that _process_single has gone through (the
\* current one included once its counter statement is passed) and for which
\* the detector returned no face.
NoFaceSoFar ==
    LET through == IF worker.pc = "inc_processed" THEN worker.i ELSE worker.i - 1
    IN  Cardinality({j \in 1..through : worker.found[j] = 0})

\* C19: when a batch starts with the detector available, the status becomes
\* a fresh record: running, total the size of the batch, processed 0,
\* faces_found 0, photos_no_face 0, no current file and no error, whatever the
\* status was; and while the status says running, photos_no_face is the number
\* of jobs of this batch processed so far for which no face was detected.
C19_FreshRunningStatus ==
    /\ [][ (worker.pc = "process_jobs" /\ worker'.pc # "process_jobs"
                                       /\ engine.available) =>
              status' = [state |-> "running",
                         total |-> Len(hist.batches[LastStarted]),
                         processed |-> 0, current |-> "", faces_found |-> 0,
                         photos_no_face |-> 0, error |-> None]
         ]_vars
    /\ [](status.state = "running" => status.photos_no_face = NoFaceSoFar)

\* C19 witness: the second batch is running after a first one that ended done
\* with faces counted; both its jobs are processed, one with faces and one
\* without, and photos_no_face is 1.
C19_Witness ==
    /\ status.state = "running"
    /\ worker.tag = 2
    /\ hist.outcome[1].kind = "done"
    /\ hist.outcome[1].faces1 > 0
    /\ worker.i = 3
    /\ \E j, k \in 1..2 : worker.found[j] = 0 /\ worker.found[k] > 0
    /\ status.photos_no_face = 1
    /\ status.processed = 2

\* A batch has just started after one that ended in error.
FreshAfterError ==
    /\ worker.tag = 2
    /\ worker.pc = "for_job"
    /\ worker.i = 1
    /\ hist.outcome[1].kind = "error"
    /\ status.state = "running"
    /\ status.error = None

(***************************************************************************)
(* Properties of the centroids (ClusterSpec)                               *)
(***************************************************************************)
\* Two vectors are the same point.
SameVec(a, b) == a.x * b.d = b.x * a.d /\ a.y * b.d = b.y * a.d

\* The sum of the embeddings compared for the input faces with these ids.
RECURSIVE SumCompared(_)
SumCompared(ids) ==
    IF ids = {} THEN Vec(0, 0, 1)
    ELSE LET j == Min(ids)
             e == Compared(FaceModel(j), cl.faces[j])
             rest == SumCompared(ids \ {j})
         IN  [x |-> e.x * rest.d + rest.x * e.d,
              y |-> e.y * rest.d + rest.y * e.d,
              d |-> e.d * rest.d]

\* Their arithmetic mean.
MeanCompared(ids) ==
    [x |-> SumCompared(ids).x, y |-> SumCompared(ids).y,
     d |-> SumCompared(ids).d * Cardinality(ids)]

\* C20: after every assignment of a pass, the count of each open cluster is
\* the number of faces assigned to it so far and its centroid is the
\* arithmetic mean of the embeddings compared for exactly those faces (unit
\* length in the cosine space); an assignment changes the cluster joined
\* only, by the update (centroid * count + embedding) / (count + 1) with the
\* count one more, or appends a cluster of count 1 at the embedding.
C20_CountAndMeanOfMembers ==
    /\ [](\A i \in 1..Len(cl.run.clusters) :
             LET c == cl.run.clusters[i]
             IN  /\ c.count = Cardinality(Members(c.gid))
                 /\ c.count >= 1
                 /\ SameVec(c.centroid, MeanCompared(Members(c.gid))))
    /\ [][ IsItemStep =>
             LET before == cl.run.clusters
                 after  == cl'.run.clusters
                 idx    == cl'.last.idx
                 emb    == cl'.last.emb
             IN  /\ \A i \in 1..Len(before) : i # idx => after[i] = before[i]
                 /\ IF idx = 0
                    THEN /\ Len(after) = Len(before) + 1
                         /\ after[Len(after)].count = 1
                         /\ after[Len(after)].centroid = emb
                    ELSE /\ Len(after) = Len(before)
                         /\ after[idx].gid = before[idx].gid
                         /\ after[idx].count = before[idx].count + 1
                         /\ SameVec(after[idx].centroid,
                               [x |-> before[idx].centroid.x * before[idx].count * emb.d
                                        + emb.x * before[idx].centroid.d,
                                y |-> before[idx].centroid.y * before[idx].count * emb.d
                                        + emb.y * before[idx].centroid.d,
                                d |-> before[idx].centroid.d * emb.d
                                        * (before[idx].count + 1)])
         ]_vars

\* C20 witness: the face just assigned joined a cluster that now has three
\* members which are not all the same embedding.
C20_Witness ==
    /\ cl.pc = "loop"
    /\ cl.last.idx # 0
    /\ Len(cl.run.clusters) >= cl.last.idx
    /\ cl.run.clusters[cl.last.idx].count = 3
    /\ \E j \in Members(cl.run.clusters[cl.last.idx].gid) :
          ~SameVec(Compared(FaceModel(j), cl.faces[j]),
                   cl.run.clusters[cl.last.idx].centroid)

\* The face just assigned joined the first of two open clusters.
JoinedFirstOfTwo ==
    /\ cl.pc = "loop"
    /\ cl.k = 4
    /\ cl.last.idx = 1
    /\ Len(cl.run.clusters) = 2
    /\ cl.run.clusters[1].count = 2
    /\ cl.run.clusters[2].count = 1

\* The same in the Euclidean space.
EuclideanMeanOfThree ==
    /\ cl.pc = "loop"
    /\ cl.last.model = "face_recognition"
    /\ cl.last.idx # 0
    /\ Len(cl.run.clusters) >= cl.last.idx
    /\ cl.run.clusters[cl.last.idx].count = 3
    /\ \E j \in Members(cl.run.clusters[cl.last.idx].gid) :
          ~SameVec(cl.faces[j].emb, cl.run.clusters[cl.last.idx].centroid)

(***************************************************************************)
(* Properties of the cosine comparison (ClusterSpec)                       *)
(***************************************************************************)
\* np.linalg.norm(v) is 1.
IsUnit(v) == NormSq(v).n = NormSq(v).d

\* The open clusters the iteration just made compared the embedding with: the
\* scan breaks at the cluster joined and goes through them all otherwise.
ComparedWith ==
    IF cl.last.idx # 0 THEN 1..cl.last.idx ELSE 1..Len(cl.last.before)

\* C21: at every comparison of _cluster_cosine the embedding and the centroid
\* of the cluster it is compared with both have unit norm, so that their dot
\* product is their cosine similarity.
C21_DotOfUnitVectors ==
    (cl.pc = "loop" /\ cl.last.model = "insightface") =>
        /\ IsUnit(cl.last.emb)
        /\ \A i \in ComparedWith : IsUnit(cl.last.before[i].centroid)

(***************************************************************************)
(* Properties of the worker threads (CacheSpec)                            *)
(***************************************************************************)
\* The worker threads that are at a detection, a call of the store or the
\* clustering: 0 stands for the worker of the current processor, n for the
\* worker of the n-th replaced one, whose calls of the store only raise.
Processing ==
    {n \in 1..Len(retired) : retired[n].worker.pc \in {"detect", "cluster"}}
        \cup (IF worker.pc \in {"detect", "cluster", "update_group"} \cup StoreCalls
              THEN {0} ELSE {})

\* The worker threads that are inside _process_jobs with a batch.
HoldingBatch ==
    {n \in 1..Len(retired) : retired[n].worker.pc # "get"}
        \cup (IF worker.pc # "get" THEN {0} ELSE {})

\* C22: processing is serialized on one worker: in every state at most one
\* worker thread is processing a batch (detecting, writing to the store or
\* clustering), whatever was submitted and whether the cache was cleared.
C22_OneWorkerOneBatch ==
    /\ Cardinality(HoldingBatch) <= 1
    /\ Cardinality(Processing) <= 1

(***************************************************************************)
(* Properties of a photo processed again (Spec)                            *)
(***************************************************************************)
\* The faces the store holds for a photo, in id order, as (embedding,
\* model_type) rows.
StoredFaces(d, photo_id) ==
    LET rows == SelectSeq(d.faces, LAMBDA f : f.photo_id = photo_id)
    IN  [j \in 1..Len(rows) |->
            [embedding |-> rows[j].embedding, model_type |-> rows[j].model_type]]

\* C23: processing a photo that is already in the store does not accumulate
\* faces: when _process_single has stored a job with the faces detected in
\* it, the face rows of its photo are exactly those faces, whatever the store
\* held for that photo before, and the store holds one row for the photo.
C23_NoAccumulation ==
    (worker.pc = "inc_processed" /\ worker.faces # <<>>) =>
        /\ worker.jobs[worker.i].photo_id \in DOMAIN db.photos
        /\ StoredFaces(db, worker.jobs[worker.i].photo_id) = worker.faces

(***************************************************************************)
(* Properties of the processed counter (Spec)                              *)
(***************************************************************************)
\* The batch the status speaks of: the one in flight once _reset_status has
\* run, the one before it until then.
StatusBatch ==
    IF worker.pc = "process_jobs" THEN Len(hist.started) - 1 ELSE Len(hist.started)

\* The iterations of the loop over the jobs the worker has completed.
JobsCompleted == worker.i - 1

\* C24: in every status record 0 <= processed <= total; while the state is
\* running, processed is the number of jobs of the batch in flight whose
\* iteration has completed; processed changes only by the replacement of the
\* record (to 0) or by one at the end of an iteration; and when the state is
\* done, processed and total are the size of the batch just finished.
C24_ProcessedCounts ==
    /\ [](/\ 0 <= status.processed
          /\ status.processed <= status.total)
    /\ [](status.state = "running" =>
             /\ worker.pc \notin {"get", "process_jobs"}
             /\ status.total = Len(worker.jobs)
             /\ status.processed = JobsCompleted)
    /\ [](status.state = "done" =>
             /\ StatusBatch >= 1
             /\ status.processed = Len(hist.batches[hist.started[StatusBatch]])
             /\ status.total = status.processed)
    /\ [][ status'.processed # status.processed =>
              \/ status'.processed = 0
              \/ /\ status'.processed = status.processed + 1
                 /\ status.state = "running"
                 /\ worker.pc = "inc_processed"
                 /\ worker'.i = worker.i + 1
         ]_vars

\* C24 witness: the status says done with processed = total = 2 for the
\* second batch, of two jobs, one of them without a face, after a first batch
\* of one job.
C24_Witness ==
    /\ status.state = "done"
    /\ status.processed = 2
    /\ status.total = 2
    /\ Len(hist.started) = 2
    /\ Len(hist.batches[1]) = 1
    /\ worker.pc = "count_stats"
    /\ \E j \in 1..2 : worker.found[j] = 0

\* The second job of a batch is in flight with the first one counted.
OneOfTwoProcessed ==
    /\ status.state = "running"
    /\ status.total = 2
    /\ status.processed = 1
    /\ worker.pc = "add_faces"

(***************************************************************************)
(* Properties of the error message of the status (Spec)                    *)
(***************************************************************************)
\* C25: in every status record the error message is present exactly when the
\* state is error: idle, running and done records have error = None, and an
\* error record carries a message, for an unavailable detector as for a
\* failed job or store call.
C25_ErrorIffErrorState ==
    /\ status.state \in {"idle", "running", "done", "error"}
    /\ (status.state = "error") <=> (status.error # None)
    /\ (status_response.state = "error") <=> (status_response.error # None)

\* C25 witness: the second batch has failed in a store call after a first
\* batch that ended done, and the status carries the message of the failure.
C25_Witness ==
    /\ JustEnded
    /\ LastStarted = 2
    /\ hist.outcome[1].kind = "done"
    /\ LastOutcome.kind = "error"
    /\ status.state = "error"
    /\ status.error = "database error"

\* A batch taken with the detector unavailable has left the error record
\* with the engine's message.
UnavailableMessageShown ==
    /\ JustEnded
    /\ LastOutcome.kind = "unavailable"
    /\ status.state = "error"
    /\ status.error = error_message
    /\ status.error # None

\* The record of a batch that ended done after a batch that failed.
DoneAfterError ==
    /\ JustEnded
    /\ LastStarted = 2
    /\ hist.outcome[1].kind = "error"
    /\ status.state = "done"
    /\ status.error = None

====
